---- MODULE Spec2Model ----
(***************************************************************************)
(* The literal variants of knight.js (Int, Str, Bool, List, Null), their   *)
(* coercions, arithmetic, equality, ordering, head/tail and Str.parse.     *)
(*                                                                         *)
(* A JavaScript value is a record [type, n, s, b, l]:                      *)
(*   type  "number" | "NaN" | "Infinity" | "Large" | "string" | "boolean"  *)
(*         | "null" | "undefined" | "array"  for JavaScript built-ins, and *)
(*         "Int" | "Str" | "Bool" | "List" | "Null"   for Knight objects;  *)
(*   n     the number held (the sign, for "Infinity" and "Large");         *)
(*   s     the string held, as a sequence of one-character strings;        *)
(*   b     the boolean held;                                               *)
(*   l     the array held, a sequence of values.                           *)
(* "NaN" and "Infinity" are values of JavaScript's number type; "Large" is  *)
(* a number, finite or not, whose magnitude is beyond MaxExact, of which   *)
(* the model keeps the sign alone.                                         *)
(***************************************************************************)
EXTENDS Integers, Sequences, FiniteSets, TLC

VARIABLES receiver, operand, op, result, input, stream, hd, tl, pc,
          operand2, args, count, built, env, trace, blk, heap

vars == <<receiver, operand, op, result, input, stream, hd, tl, pc,
          operand2, args, count, built, env, trace, blk, heap>>

\* The further arguments of a call, the variables of a loop under way, the
\* variable environment with the evaluator's record of what it ran, and
\* the objects and arrays allocated, by address.
aux == <<operand2, args, count, built, env, trace, blk, heap>>

(***************************************************************************)
(* Bounds of the model.                                                    *)
(***************************************************************************)
MaxInt == 7
MaxStrLen == 2
MaxListLen == 2
MaxSrcLen == 3
\* The largest magnitude of the Ints whose digits are listed.
MaxDigitsInt == 120
\* The most cells a heap holds.
MaxHeap == 14
\* The most bodies a loop is followed through.
MaxLoop == 2
\* The most lookups a program makes.
MaxLookups == 2
\* How far below zero the count of List.mul is followed.
MaxDescent == 10
\* The largest magnitude a power is computed to; a larger one is kept as
\* "Large" with its sign.
MaxExact == 1000000

(***************************************************************************)
(* JavaScript built-in values.                                             *)
(***************************************************************************)
JS(t, n, s, b, l) == [type |-> t, n |-> n, s |-> s, b |-> b, l |-> l]

JSNumber(n) == JS("number", n, <<>>, FALSE, <<>>)
JSNaN == JS("NaN", 0, <<>>, FALSE, <<>>)
JSInfinity(sign) == JS("Infinity", sign, <<>>, FALSE, <<>>)
JSLarge(sign) == JS("Large", sign, <<>>, FALSE, <<>>)
JSString(s) == JS("string", 0, s, FALSE, <<>>)
JSBoolean(b) == JS("boolean", 0, <<>>, b, <<>>)
JSArray(l) == JS("array", 0, <<>>, FALSE, l)
JSNull == JS("null", 0, <<>>, FALSE, <<>>)
JSUndefined == JS("undefined", 0, <<>>, FALSE, <<>>)

IsNumber(x) == x.type \in {"number", "NaN", "Infinity", "Large"}

Abs(n) == IF n < 0 THEN -n ELSE n
Sign(n) == IF n < 0 THEN -1 ELSE IF n > 0 THEN 1 ELSE 0
Min(a, b) == IF a < b THEN a ELSE b

\* m to the power e for m >= 0 and e >= 0, or MaxExact + 1 when that is
\* larger: the product is built up factor by factor, and given up once it
\* passes MaxExact.
RECURSIVE MagnitudePowFrom(_, _, _)
MagnitudePowFrom(m, e, acc) ==
  IF e = 0 THEN acc
  ELSE IF acc * m > MaxExact THEN MaxExact + 1
  ELSE MagnitudePowFrom(m, e - 1, acc * m)

MagnitudePow(m, e) ==
  IF e = 0 \/ m = 1 THEN 1
  ELSE IF m = 0 THEN 0
  ELSE MagnitudePowFrom(m, e, 1)

\* The sign of base to the power e, for e >= 0
SignPow(base, e) == IF base < 0 /\ e % 2 = 1 THEN -1 ELSE IF base = 0 /\ e > 0 THEN 0 ELSE 1

\* The outcome of a call: a returned value or a thrown error.
Return(v) == [kind |-> "return", val |-> v, error |-> "none"]
Throw(e) == [kind |-> "throw", val |-> JSUndefined, error |-> e]
NoResult == [kind |-> "none", val |-> JSUndefined, error |-> "none"]

\* `new E(...)` where E is resolved in the module's scope: an identifier
\* the module never imported is a ReferenceError when it is evaluated.
ThrowNew(imports, e) == IF e \in imports THEN Throw(e) ELSE Throw("ReferenceError")

IntImports == {"TYPES", "Literal", "Str", "RuntimeError"}
StrImports == {"TYPES", "Int", "Literal", "ParseError"}
ListImports == {"Value", "Literal", "Str", "RuntimeError"}
NullImports == {"TYPES", "Literal", "RuntimeError"}

(***************************************************************************)
(* Knight objects: `new Int(data)` and so on (Literal.constructor stores   *)
(* the data).  An Int whose data is NaN or an Infinity keeps the kind of   *)
(* number in s.                                                            *)
(***************************************************************************)
NewInt(x) ==
  IF x.type = "number" THEN JS("Int", x.n, <<>>, FALSE, <<>>)
  ELSE JS("Int", x.n, <<x.type>>, FALSE, <<>>)
NewStr(s) == JS("Str", 0, s, FALSE, <<>>)
NewBool(b) == JS("Bool", 0, <<>>, b, <<>>)
NewList(l) == JS("List", 0, <<>>, FALSE, l)
NewNull == JS("Null", 0, <<>>, FALSE, <<>>)

IntOf(n) == NewInt(JSNumber(n))

\* this._data
Data(v) ==
  CASE v.type = "Int" -> IF v.s = <<>> THEN JSNumber(v.n) ELSE JS(v.s[1], v.n, <<>>, FALSE, <<>>)
    [] v.type = "Str" -> JSString(v.s)
    [] v.type = "Bool" -> JSBoolean(v.b)
    [] v.type = "List" -> JSArray(v.l)
    [] v.type = "Null" -> JSNull

\* rhs instanceof C, for the five classes (none extends another)
InstanceOf(v, class) == v.type = class

(***************************************************************************)
(* Text: a JavaScript string is a sequence of one-character strings.       *)
(***************************************************************************)
Digits == <<"0", "1", "2", "3", "4", "5", "6", "7", "8", "9">>
Lower == <<"a", "b", "c", "d", "e", "f", "g", "h", "i", "j", "k", "l", "m",
           "n", "o", "p", "q", "r", "s", "t", "u", "v", "w", "x", "y", "z">>
IsDigit(c) == \E i \in 1..Len(Digits) : Digits[i] = c
DigitVal(c) == (CHOOSE i \in 1..Len(Digits) : Digits[i] = c) - 1
DigitChar(d) == Digits[d + 1]
WhiteSpace == {" ", "\t", "\n", "\r"}

\* The UTF-16 code unit of a character.
CharCode(c) ==
  IF IsDigit(c) THEN 48 + DigitVal(c)
  ELSE IF \E i \in 1..Len(Lower) : Lower[i] = c
       THEN 96 + (CHOOSE i \in 1..Len(Lower) : Lower[i] = c)
  ELSE CASE c = "\t" -> 9 [] c = "\n" -> 10 [] c = "\r" -> 13 [] c = " " -> 32
         [] c = "\"" -> 34 [] c = "'" -> 39 [] c = "+" -> 43 [] c = "," -> 44
         [] c = "-" -> 45 [] c = "I" -> 73 [] c = "N" -> 78

\* a < b on strings: code unit by code unit, a proper prefix is smaller.
RECURSIVE StringLess(_, _)
StringLess(a, b) ==
  IF b = <<>> THEN FALSE
  ELSE IF a = <<>> THEN TRUE
  ELSE IF CharCode(Head(a)) # CharCode(Head(b)) THEN CharCode(Head(a)) < CharCode(Head(b))
  ELSE StringLess(Tail(a), Tail(b))

\* The decimal text of a non-negative integer.
RECURSIVE NatToString(_)
NatToString(n) ==
  IF n < 10 THEN <<DigitChar(n)>> ELSE NatToString(n \div 10) \o <<DigitChar(n % 10)>>

\* String(x) of a built-in number
NumberToString(x) ==
  CASE x.type = "number" -> IF x.n < 0 THEN <<"-">> \o NatToString(-x.n) ELSE NatToString(x.n)
    [] x.type = "NaN" -> <<"N", "a", "N">>
    [] x.type = "Infinity" ->
         (IF x.n < 0 THEN <<"-">> ELSE <<>>) \o <<"I", "n", "f", "i", "n", "i", "t", "y">>

\* Boolean(x) of a built-in value
Boolean(x) ==
  CASE x.type = "number" -> x.n # 0
    [] x.type = "NaN" -> FALSE
    [] x.type \in {"Infinity", "Large"} -> TRUE
    [] x.type = "string" -> x.s # <<>>
    [] x.type = "boolean" -> x.b
    [] x.type \in {"null", "undefined"} -> FALSE
    [] x.type = "array" -> TRUE

\* Number(x) of a built-in number, boolean or null (Str and List override
\* toNumber, so a string or an array never reaches Literal.toNumber).
Number(x) ==
  CASE IsNumber(x) -> x
    [] x.type = "boolean" -> JSNumber(IF x.b THEN 1 ELSE 0)
    [] x.type = "null" -> JSNumber(0)

\* parseInt(s, 10): leading white space, an optional sign, then the longest
\* run of decimal digits; NaN when there is no digit.
RECURSIVE SkipSpace(_)
SkipSpace(s) ==
  IF s # <<>> /\ Head(s) \in WhiteSpace THEN SkipSpace(Tail(s)) ELSE s

RECURSIVE ParseDigits(_, _, _)
ParseDigits(s, acc, any) ==
  IF s # <<>> /\ IsDigit(Head(s))
  THEN ParseDigits(Tail(s), acc * 10 + DigitVal(Head(s)), TRUE)
  ELSE [any |-> any, n |-> acc]

ParseInt(text) ==
  LET s == SkipSpace(text)
      signed == s # <<>> /\ Head(s) \in {"+", "-"}
      sign == IF signed /\ Head(s) = "-" THEN -1 ELSE 1
      d == ParseDigits(IF signed THEN Tail(s) ELSE s, 0, FALSE)
  IN IF d.any THEN JSNumber(sign * d.n) ELSE JSNaN

\* x || y
Or(x, y) == IF Boolean(x) THEN x ELSE y

(***************************************************************************)
(* JavaScript arithmetic on numbers.  A quotient is kept exact, as a       *)
(* fraction, until Math.trunc cuts it: on the integers of the model the    *)
(* double the engine computes truncates to the same integer.               *)
(***************************************************************************)
Fraction(num, den) == [kind |-> "fraction", num |-> num, den |-> den]
NonFinite(x) == [kind |-> x.type, num |-> x.n, den |-> 1]

\* a / b
Divide(a, b) ==
  IF a.type # "number" \/ b.type # "number" THEN NonFinite(JSNaN)
  ELSE IF b.n # 0 THEN Fraction(a.n, b.n)
  ELSE IF a.n = 0 THEN NonFinite(JSNaN) ELSE NonFinite(JSInfinity(Sign(a.n)))

\* a % b: the remainder has the sign of the dividend
Remainder(a, b) ==
  IF a.type # "number" \/ b.type # "number" \/ b.n = 0 THEN JSNaN
  ELSE JSNumber(Sign(a.n) * (Abs(a.n) % Abs(b.n)))

\* a ** b
Exponent(a, b) ==
  IF a.type # "number" \/ b.type # "number" THEN NonFinite(JSNaN)
  ELSE IF b.n >= 0
       THEN IF MagnitudePow(Abs(a.n), b.n) > MaxExact THEN NonFinite(JSLarge(SignPow(a.n, b.n)))
            ELSE Fraction(SignPow(a.n, b.n) * MagnitudePow(Abs(a.n), b.n), 1)
  ELSE IF a.n = 0 THEN NonFinite(JSInfinity(1))
  ELSE Fraction(SignPow(a.n, -b.n), MagnitudePow(Abs(a.n), -b.n))

\* Math.trunc(q): the integer part, toward zero
Math_trunc(q) ==
  IF q.kind # "fraction" THEN JS(q.kind, q.num, <<>>, FALSE, <<>>)
  ELSE JSNumber(Sign(q.num) * Sign(q.den) * (Abs(q.num) \div Abs(q.den)))

\* Math.floor(q), toward negative infinity
Math_floor(q) ==
  IF q.kind # "fraction" THEN JS(q.kind, q.num, <<>>, FALSE, <<>>)
  ELSE JSNumber((q.num * Sign(q.den)) \div Abs(q.den))

(***************************************************************************)
(* Coercions.  toNumber, toString, toBoolean and toArray are the methods   *)
(* as JavaScript dispatches them: the subclass's override when it has one, *)
(* Literal's otherwise.                                                    *)
(***************************************************************************)
RECURSIVE toString(_)

\* Array.prototype.join(sep): every element converted with its toString()
RECURSIVE Join(_, _)
Join(arr, sep) ==
  IF arr = <<>> THEN <<>>
  ELSE IF Len(arr) = 1 THEN toString(arr[1]).s
  ELSE toString(arr[1]).s \o sep \o Join(Tail(arr), sep)

Literal_toString(this) ==
  LET d == Data(this)
  IN CASE IsNumber(d) -> JSString(NumberToString(d))
       [] d.type = "string" -> JSString(d.s)
       [] d.type = "boolean" ->
            JSString(IF d.b THEN <<"t", "r", "u", "e">> ELSE <<"f", "a", "l", "s", "e">>)
       [] d.type = "null" -> JSString(<<"n", "u", "l", "l">>)

Null_toString(this) == JSString(<<>>)

List_toString(this) == JSString(Join(this.l, <<"\n">>))

toString(this) ==
  CASE this.type = "Null" -> Null_toString(this)
    [] this.type = "List" -> List_toString(this)
    [] OTHER -> Literal_toString(this)

Literal_toNumber(this) == Number(Data(this))

Str_toNumber(this) == Or(ParseInt(this.s), JSNumber(0))

List_toNumber(this) == JSNumber(Len(this.l))

toNumber(this) ==
  CASE this.type = "Str" -> Str_toNumber(this)
    [] this.type = "List" -> List_toNumber(this)
    [] OTHER -> Literal_toNumber(this)

Literal_toBoolean(this) == JSBoolean(Boolean(Data(this)))

\* A List that is true whatever it holds.
List_toBoolean_always(this) == JSBoolean(TRUE)

List_toBoolean(this) == JSBoolean(Len(this.l) # 0)

toBoolean(this) ==
  CASE this.type = "List" -> List_toBoolean(this)
    [] OTHER -> Literal_toBoolean(this)

\* An array left in the order it was built in.
Reverse_not(s) == s

RECURSIVE Reverse(_)
Reverse(s) == IF s = <<>> THEN <<>> ELSE Reverse(Tail(s)) \o <<Head(s)>>

\* The loop of Int.toArray, for an Int that holds an integer.
RECURSIVE Int_toArray_loop(_, _, _)
Int_toArray_loop(data, num, acc) ==
  IF num # 0 /\ num # -1
  THEN Int_toArray_loop(data,
                        Math_floor(Divide(JSNumber(num), JSNumber(10))).n,
                        acc \o <<IntOf(Sign(data) * Remainder(JSNumber(num), JSNumber(10)).n)>>)
  ELSE Reverse(acc)

Int_toArray(this) ==
  IF this.n = 0 THEN JSArray(<<this>>)
  ELSE JSArray(Int_toArray_loop(this.n, Abs(this.n), <<>>))

Str_toArray(this) == JSArray([i \in 1..Len(this.s) |-> NewStr(<<this.s[i]>>)])

Bool_toArray(this) == JSArray(IF this.b THEN <<this>> ELSE <<>>)

Null_toArray(this) == JSArray(<<>>)

List_toArray(this) == JSArray(this.l)

toArray(this) ==
  CASE this.type = "Int" -> Int_toArray(this)
    [] this.type = "Str" -> Str_toArray(this)
    [] this.type = "Bool" -> Bool_toArray(this)
    [] this.type = "Null" -> Null_toArray(this)
    [] this.type = "List" -> List_toArray(this)

(***************************************************************************)
(* Int arithmetic.                                                         *)
(***************************************************************************)
Int_add(this, rhs) == Return(IntOf(this.n + toNumber(rhs).n))

\* A division that rounds toward negative infinity.
Int_div_floor(this, rhs) ==
  LET rhsInt == toNumber(rhs)
  IN IF ~Boolean(rhsInt) THEN ThrowNew(IntImports, "RuntimeError")
     ELSE Return(NewInt(Math_floor(Divide(Data(this), rhsInt))))

Int_div(this, rhs) ==
  LET rhsInt == toNumber(rhs)
  IN IF ~Boolean(rhsInt) THEN ThrowNew(IntImports, "RuntimeError")
     ELSE Return(NewInt(Math_trunc(Divide(Data(this), rhsInt))))

\* A modulo that tests the operand object, which is always truthy, instead
\* of its number.
Int_mod_unchecked(this, rhs) ==
  LET rhsInt == toNumber(rhs)
  IN IF FALSE THEN ThrowNew(IntImports, "RuntimeError")
     ELSE Return(NewInt(Remainder(Data(this), rhsInt)))

Int_mod(this, rhs) ==
  LET rhsInt == toNumber(rhs)
  IN IF ~Boolean(rhsInt) THEN ThrowNew(IntImports, "RuntimeError")
     ELSE Return(NewInt(Remainder(Data(this), rhsInt)))

\* A power that refuses every negative exponent.
Int_pow_strict(this, rhs) ==
  LET rhsInt == toNumber(rhs)
  IN IF rhsInt.n < 0 THEN ThrowNew(IntImports, "RuntimeError")
     ELSE Return(NewInt(Math_trunc(Exponent(Data(this), rhsInt))))

Int_pow(this, rhs) ==
  LET rhsInt == toNumber(rhs)
  IN IF ~Boolean(Data(this)) /\ rhsInt.n < 0 THEN ThrowNew(IntImports, "RuntimeError")
     ELSE Return(NewInt(Math_trunc(Exponent(Data(this), rhsInt))))

(***************************************************************************)
(* Concatenation.                                                          *)
(***************************************************************************)
\* `${this}${rhs}`
Str_add(this, rhs) == Return(NewStr(toString(this).s \o toString(rhs).s))

\* this._data.concat(rhs.toArray())
List_add(this, rhs) == Return(NewList(this.l \o toArray(rhs).l))

\* value.add(rhs): Bool and Null define no add, and calling the missing
\* method is a TypeError.
add(this, rhs) ==
  CASE this.type = "Int" -> Int_add(this, rhs)
    [] this.type = "Str" -> Str_add(this, rhs)
    [] this.type = "List" -> List_add(this, rhs)
    [] OTHER -> Throw("TypeError")

(***************************************************************************)
(* Equality.                                                               *)
(***************************************************************************)
\* x === y on built-in numbers, strings, booleans and null (an array is
\* compared by identity, and never reaches Literal.eql: List overrides eql)
StrictEquals(x, y) ==
  IF x.type = "NaN" \/ y.type = "NaN" THEN FALSE ELSE x = y

\* An equality that compares the string forms of the two values.
Literal_eql_text(this, rhs) == toString(this) = toString(rhs)

Literal_eql(this, rhs) ==
  InstanceOf(rhs, this.type) /\ StrictEquals(Data(this), Data(rhs))

RECURSIVE eql(_, _)

RECURSIVE List_eql_loop(_, _, _)
List_eql_loop(this, rhs, i) ==
  IF i < Len(this.l)
  THEN IF ~eql(this.l[i + 1], rhs.l[i + 1]) THEN FALSE ELSE List_eql_loop(this, rhs, i + 1)
  ELSE TRUE

\* An equality whose element test is inverted.
RECURSIVE List_eql_inverted_loop(_, _, _)
List_eql_inverted_loop(this, rhs, i) ==
  IF i < Len(this.l)
  THEN IF eql(this.l[i + 1], rhs.l[i + 1]) THEN FALSE
       ELSE List_eql_inverted_loop(this, rhs, i + 1)
  ELSE TRUE

List_eql_inverted(this, rhs) ==
  IF ~InstanceOf(rhs, "List") \/ Len(this.l) # Len(rhs.l) THEN FALSE
  ELSE List_eql_inverted_loop(this, rhs, 0)

List_eql(this, rhs) ==
  IF ~InstanceOf(rhs, "List") \/ Len(this.l) # Len(rhs.l) THEN FALSE
  ELSE List_eql_loop(this, rhs, 0)

eql(this, rhs) ==
  IF this.type = "List" THEN List_eql(this, rhs) ELSE Literal_eql(this, rhs)

(***************************************************************************)
(* Ordering.                                                               *)
(***************************************************************************)
Int_cmp(this, rhs) == Return(JSNumber(this.n - toNumber(rhs).n))

Str_cmp(this, rhs) ==
  LET r == toString(rhs).s
  IN Return(JSNumber(IF StringLess(this.s, r) THEN -1
                     ELSE IF StringLess(r, this.s) THEN 1 ELSE 0))

Bool_cmp(this, rhs) ==
  Return(JSNumber(Number(JSBoolean(this.b)).n - Number(toBoolean(rhs)).n))

\* A Null that orders itself as the number 0.
Null_cmp_as_zero(this, rhs) == Return(JSNumber(0 - toNumber(rhs).n))

Null_cmp(this, rhs) == ThrowNew(NullImports, "RuntimeError")

RECURSIVE cmp(_, _)

RECURSIVE List_cmp_loop(_, _, _)
List_cmp_loop(data, arr, i) ==
  IF i < Min(Len(data), Len(arr))
  THEN LET res == cmp(data[i + 1], arr[i + 1])
       IN IF res.kind = "throw" THEN res
          ELSE IF ~StrictEquals(res.val, JSNumber(0)) THEN res
          ELSE List_cmp_loop(data, arr, i + 1)
  ELSE Return(JSNumber(Len(data) - Len(arr)))

\* An ordering that looks at the lengths before the elements.
List_cmp_length_first(this, rhs) ==
  IF Len(this.l) # Len(toArray(rhs).l) THEN Return(JSNumber(Len(this.l) - Len(toArray(rhs).l)))
  ELSE List_cmp_loop(this.l, toArray(rhs).l, 0)

List_cmp(this, rhs) == List_cmp_loop(this.l, toArray(rhs).l, 0)

cmp(this, rhs) ==
  CASE this.type = "Int" -> Int_cmp(this, rhs)
    [] this.type = "Str" -> Str_cmp(this, rhs)
    [] this.type = "Bool" -> Bool_cmp(this, rhs)
    [] this.type = "Null" -> Null_cmp(this, rhs)
    [] this.type = "List" -> List_cmp(this, rhs)

(***************************************************************************)
(* head and tail.                                                          *)
(***************************************************************************)
Str_head(this) ==
  IF Len(this.s) = 0 THEN ThrowNew(StrImports, "RuntimeError")
  ELSE Return(NewStr(<<this.s[1]>>))

\* A tail that keeps the first character: substr(0).
Str_tail_whole(this) ==
  IF Len(this.s) = 0 THEN ThrowNew(StrImports, "RuntimeError")
  ELSE Return(NewStr(this.s))

Str_tail(this) ==
  IF Len(this.s) = 0 THEN ThrowNew(StrImports, "RuntimeError")
  ELSE Return(NewStr(Tail(this.s)))

List_head(this) ==
  IF Len(this.l) = 0 THEN ThrowNew(ListImports, "RuntimeError")
  ELSE Return(this.l[1])

List_tail(this) ==
  IF Len(this.l) = 0 THEN ThrowNew(ListImports, "RuntimeError")
  ELSE Return(NewList(Tail(this.l)))

\* value.head() and value.tail(), defined by Str and List alone
head(this) ==
  CASE this.type = "Str" -> Str_head(this)
    [] this.type = "List" -> List_head(this)
    [] OTHER -> Throw("TypeError")

tail(this) ==
  CASE this.type = "Str" -> Str_tail(this)
    [] this.type = "List" -> List_tail(this)
    [] OTHER -> Throw("TypeError")

(***************************************************************************)
(* Repetition: Str.mul.                                                    *)
(***************************************************************************)
\* String.prototype.repeat(count): the count is made an integer (NaN is 0);
\* a negative or infinite count is a RangeError, and so is a result longer
\* than a string may be.
String_repeat(s, n) ==
  CASE n.type = "NaN" -> Return(JSString(<<>>))
    [] n.type = "number" ->
         IF n.n < 0 THEN Throw("RangeError")
         ELSE Return(JSString([i \in 1..(n.n * Len(s)) |-> s[((i - 1) % Len(s)) + 1]]))
    [] n.type = "Infinity" -> Throw("RangeError")
    [] n.type = "Large" ->
         IF n.n > 0 /\ s = <<>> THEN Return(JSString(<<>>)) ELSE Throw("RangeError")

\* new Str(this._data.repeat(rhs.toNumber()))
Str_mul(this, rhs) ==
  LET repeated == String_repeat(this.s, toNumber(rhs))
  IN IF repeated.kind = "throw" THEN repeated ELSE Return(NewStr(repeated.val.s))

(***************************************************************************)
(* Ranges: Str.get and List.get.                                           *)
(***************************************************************************)
Max(a, b) == IF a > b THEN a ELSE b

\* The integer a string or array method makes of an index: NaN is 0, and a
\* number beyond MaxExact stays beyond every length.
ToInteger(x) ==
  CASE x.type = "number" -> x.n
    [] x.type = "NaN" -> 0
    [] x.type \in {"Infinity", "Large"} -> x.n * (MaxExact + 1)

\* a + b on numbers
Plus(a, b) ==
  IF a.type = "number" /\ b.type = "number" THEN JSNumber(a.n + b.n)
  ELSE IF a.type = "number" THEN b
  ELSE IF b.type = "number" \/ a = b THEN a
  ELSE JSNaN

\* An index clamped to 0 .. len
Clamp(i, len) == Max(0, Min(i, len))

\* An index that counts from the end when it is negative, kept in 0 .. len
Relative(i, len) == IF i < 0 THEN Max(len + i, 0) ELSE Min(i, len)

\* String.prototype.substring(start, end): both clamped to 0 .. length, and
\* swapped when start is the larger.
String_substring(s, start, end) ==
  LET a == Clamp(ToInteger(start), Len(s))
      b == Clamp(ToInteger(end), Len(s))
  IN JSString(SubSeq(s, Min(a, b) + 1, Max(a, b)))

\* String.prototype.substr(start, length): a negative start counts from the
\* end, and the length is cut to what is left.
String_substr(s, start, length) ==
  LET a == Relative(ToInteger(start), Len(s))
      n == Clamp(ToInteger(length), Len(s) - a)
  IN JSString(SubSeq(s, a + 1, a + n))

\* Array.prototype.slice(start, end): negative indices count from the end.
Array_slice(l, start, end) ==
  LET a == Relative(ToInteger(start), Len(l))
      b == Relative(ToInteger(end), Len(l))
  IN JSArray(SubSeq(l, a + 1, b))

\* new Str(this._data.substring(start, start + length) || "")
Str_get(this, start, length) ==
  LET from == toNumber(start)
      len == toNumber(length)
  IN Return(NewStr(Or(String_substring(this.s, from, Plus(from, len)), JSString(<<>>)).s))

\* new Str(this._data.substr(start.toNumber(), length.toNumber()) || "")
Str_get_2(this, start, length) ==
  Return(NewStr(Or(String_substr(this.s, toNumber(start), toNumber(length)), JSString(<<>>)).s))

\* new List(this._data.slice(start, start + length) || [])
List_get(this, start, length) ==
  LET from == toNumber(start)
      len == toNumber(length)
  IN Return(NewList(Or(Array_slice(this.l, from, Plus(from, len)), JSArray(<<>>)).l))

\* String.prototype.charCodeAt(0): NaN when the string has no character.
String_charCodeAt0(s) == IF s = <<>> THEN JSNaN ELSE JSNumber(CharCode(s[1]))

\* new Int(this._data.charCodeAt(0))
Str_ascii(this) == Return(NewInt(String_charCodeAt0(this.s)))

\* Array.prototype.toSpliced(start, deleteCount, ...items): a copy with
\* deleteCount elements from start replaced by the items.
Array_toSpliced(l, start, deleteCount, items) ==
  LET a == Relative(ToInteger(start), Len(l))
      n == Clamp(ToInteger(deleteCount), Len(l) - a)
  IN JSArray(SubSeq(l, 1, a) \o items \o SubSeq(l, a + n + 1, Len(l)))

\* Str.set: the replacement is appended when start is the length, and put
\* in place of [start .. start + length) otherwise.
Str_set(this, start, length, repl) ==
  LET from == toNumber(start)
      len == toNumber(length)
      text == toString(repl).s
  IN IF StrictEquals(JSNumber(Len(this.s)), from) THEN Return(NewStr(this.s \o text))
     ELSE Return(NewStr(String_substring(this.s, JSNumber(0), from).s
                        \o text
                        \o String_substring(this.s, Plus(from, len), JSNumber(Len(this.s))).s))

(***************************************************************************)
(* The source cursor (stream.js): the text that is left, a peek at its     *)
(* first character, and a match that consumes an anchored match and        *)
(* returns the capture asked for, or returns null and consumes nothing.    *)
(***************************************************************************)
Stream_peek(source) ==
  IF source = <<>> THEN JSNull ELSE JSString(<<source[1]>>)

Stream_match(source, m, group) ==
  IF ~m.matched THEN [value |-> JSNull, source |-> source]
  ELSE [value |-> JSString(m.groups[group + 1]),
        source |-> SubSeq(source, Len(m.groups[1]) + 1, Len(source))]

Quotes == {"\"", "'"}

\* A pattern whose body is greedy: it runs to the last matching quote.
StrRegex_greedy(text) ==
  IF text # <<>> /\ text[1] \in Quotes /\ (\E j \in 2..Len(text) : text[j] = text[1])
  THEN LET close == CHOOSE j \in 2..Len(text) :
                      /\ text[j] = text[1]
                      /\ \A k \in (j + 1)..Len(text) : text[k] # text[1]
       IN [matched |-> TRUE,
           groups |-> <<SubSeq(text, 1, close), <<text[1]>>, SubSeq(text, 2, close - 1)>>]
  ELSE [matched |-> FALSE, groups |-> <<>>]

\* /^(["'])([\s\S]*?)\1/ : an opening quote, the shortest run of any
\* characters, and the same quote again.
StrRegex(text) ==
  IF text # <<>> /\ text[1] \in Quotes /\ (\E j \in 2..Len(text) : text[j] = text[1])
  THEN LET close == CHOOSE j \in 2..Len(text) :
                      /\ text[j] = text[1]
                      /\ \A k \in 2..(j - 1) : text[k] # text[1]
       IN [matched |-> TRUE,
           groups |-> <<SubSeq(text, 1, close), <<text[1]>>, SubSeq(text, 2, close - 1)>>]
  ELSE [matched |-> FALSE, groups |-> <<>>]

\* Str.parse: the outcome and the text left in the stream.
Str_parse(source) ==
  LET match == Stream_match(source, StrRegex(source), 2)
  IN IF StrictEquals(match.value, JSNull)
     THEN LET first == Stream_peek(match.source)
          IN IF StrictEquals(first, JSString(<<"'">>)) \/ StrictEquals(first, JSString(<<"\"">>))
             THEN [result |-> ThrowNew(StrImports, "ParseError"), source |-> match.source]
             ELSE [result |-> Return(JSNull), source |-> match.source]
     ELSE [result |-> Return(NewStr(match.value.s)), source |-> match.source]

\* The other copy of Str.parse: it falls off its end, returning undefined,
\* when the text does not start with a quote.
Str_parse_2(source) ==
  LET match == Stream_match(source, StrRegex(source), 2)
  IN IF ~StrictEquals(match.value, JSNull)
     THEN [result |-> Return(NewStr(match.value.s)), source |-> match.source]
     ELSE LET first == Stream_peek(match.source)
          IN IF StrictEquals(first, JSString(<<"'">>)) \/ StrictEquals(first, JSString(<<"\"">>))
             THEN [result |-> ThrowNew(StrImports, "ParseError"), source |-> match.source]
             ELSE [result |-> Return(JSUndefined), source |-> match.source]

(***************************************************************************)
(* The parsers of the other literals, the dispatch over the registered     *)
(* variants (value.js) and run.  The texts of the model hold no operator   *)
(* token and no variable name, so the literals are the variants that can   *)
(* match.                                                                  *)
(***************************************************************************)
Upper == {"A", "B", "C", "D", "E", "F", "G", "H", "I", "J", "K", "L", "M",
          "N", "O", "P", "Q", "R", "S", "T", "U", "V", "W", "X", "Y", "Z"}

\* The length of the longest prefix of text made of characters of S.
PrefixLength(text, S) ==
  CHOOSE k \in 0..Len(text) :
    /\ \A i \in 1..k : text[i] \in S
    /\ k = Len(text) \/ text[k + 1] \notin S

\* /^\d+/
IntRegex(text) ==
  LET k == PrefixLength(text, {Digits[i] : i \in 1..Len(Digits)})
  IN IF k > 0 THEN [matched |-> TRUE, groups |-> <<SubSeq(text, 1, k)>>]
     ELSE [matched |-> FALSE, groups |-> <<>>]

\* /^([TF])[A-Z]*/
BoolRegex(text) ==
  IF text # <<>> /\ text[1] \in {"T", "F"}
  THEN [matched |-> TRUE, groups |-> <<SubSeq(text, 1, PrefixLength(text, Upper)), <<text[1]>>>>]
  ELSE [matched |-> FALSE, groups |-> <<>>]

\* /^N[A-Z]*/
NullRegex(text) ==
  IF text # <<>> /\ text[1] = "N"
  THEN [matched |-> TRUE, groups |-> <<SubSeq(text, 1, PrefixLength(text, Upper))>>]
  ELSE [matched |-> FALSE, groups |-> <<>>]

\* /^@/
ListRegex(text) ==
  IF text # <<>> /\ text[1] = "@"
  THEN [matched |-> TRUE, groups |-> <<<<"@">>>>]
  ELSE [matched |-> FALSE, groups |-> <<>>]

\* x && y, where y is an object
And(x, y) == IF Boolean(x) THEN y ELSE x

\* match && new Int(Number(match))
Int_parse(source) ==
  LET match == Stream_match(source, IntRegex(source), 0)
  IN [result |-> Return(And(match.value, NewInt(JSNumber(ParseDigits(match.value.s, 0, FALSE).n)))),
      source |-> match.source]

\* match && new Bool(match === 'T')
Bool_parse(source) ==
  LET match == Stream_match(source, BoolRegex(source), 1)
  IN [result |-> Return(And(match.value, NewBool(StrictEquals(match.value, JSString(<<"T">>))))),
      source |-> match.source]

\* stream.match(/^N[A-Z]*/) && new Null()
Null_parse(source) ==
  LET match == Stream_match(source, NullRegex(source), 0)
  IN [result |-> Return(And(match.value, NewNull)), source |-> match.source]

\* stream.match(/^@/) && new List([])
List_parse(source) ==
  LET match == Stream_match(source, ListRegex(source), 0)
  IN [result |-> Return(And(match.value, NewList(<<>>))), source |-> match.source]

\* Stream.stripWhitespace: white space and comments, from # to the end of
\* the line, are passed over.
RECURSIVE Stream_stripWhitespace(_)
Stream_stripWhitespace(source) ==
  IF source = <<>> THEN source
  ELSE IF source[1] \in WhiteSpace THEN Stream_stripWhitespace(Tail(source))
  ELSE IF source[1] = "#"
       THEN LET line == CHOOSE k \in 1..Len(source) :
                          /\ \A i \in 2..k : source[i] # "\n"
                          /\ k = Len(source) \/ source[k + 1] = "\n"
            IN Stream_stripWhitespace(SubSeq(source, line + 2, Len(source)))
  ELSE source

\* The registered variants, in the order they are tried.
TYPES == <<"Int", "Str", "Bool", "Null", "List">>

Type_parse(type, source) ==
  CASE type = "Int" -> Int_parse(source)
    [] type = "Str" -> Str_parse(source)
    [] type = "Bool" -> Bool_parse(source)
    [] type = "Null" -> Null_parse(source)
    [] type = "List" -> List_parse(source)

\* Whether a value is an object (true in a condition) or null or undefined.
IsObject(x) == x.type \in {"Int", "Str", "Bool", "Null", "List"}

\* Value.parse from the i-th registered variant on: the first variant that
\* returns a value wins, an error a variant throws passes through, and null
\* is returned when none is left.
RECURSIVE Value_parse_from(_, _)
Value_parse_from(source, i) ==
  IF i > Len(TYPES) THEN [result |-> Return(JSNull), source |-> source]
  ELSE LET match == Type_parse(TYPES[i], source)
       IN IF match.result.kind = "throw" \/ IsObject(match.result.val) THEN match
          ELSE Value_parse_from(match.source, i + 1)

Value_parse(source) == Value_parse_from(Stream_stripWhitespace(source), 1)

\* Literal.run: `return this`
Literal_run(this) == Return(this)

RunImports == {"Value", "Stream", "ParseError"}

\* A run that returns null when no value could be parsed.
run_null(text) ==
  LET parsed == Value_parse(text)
  IN IF parsed.result.kind = "throw"
     THEN [result |-> parsed.result, source |-> parsed.source, ran |-> <<>>]
     ELSE IF StrictEquals(parsed.result.val, JSNull)
     THEN [result |-> Return(JSNull), source |-> parsed.source, ran |-> <<>>]
     ELSE [result |-> Literal_run(parsed.result.val), source |-> parsed.source,
           ran |-> <<parsed.result.val>>]

\* run(input): the outcome, the text left in the stream, and the values
\* that were run.
run(text) ==
  LET parsed == Value_parse(text)
  IN IF parsed.result.kind = "throw"
     THEN [result |-> parsed.result, source |-> parsed.source, ran |-> <<>>]
     ELSE IF StrictEquals(parsed.result.val, JSNull)
     THEN [result |-> ThrowNew(RunImports, "ParseError"), source |-> parsed.source, ran |-> <<>>]
     ELSE [result |-> Literal_run(parsed.result.val), source |-> parsed.source,
           ran |-> <<parsed.result.val>>]

(***************************************************************************)
(* Objects by address.  The heap is the sequence of the cells allocated:   *)
(* a cell is a Knight object or an array; an address is a position in the  *)
(* heap.  An Int, Str, Bool or Null cell holds its data, a List cell holds *)
(* in n the address of its array, and an array cell holds in l the         *)
(* addresses of its elements.  A reference to an object is a "ref" value.  *)
(***************************************************************************)
Ref(a) == JS("ref", a, <<>>, FALSE, <<>>)
ArrayCell(l) == JS("array", 0, <<>>, FALSE, l)
ListCell(a) == JS("List", a, <<>>, FALSE, <<>>)

\* `new` and array literals: a cell is added at the end of the heap.
Alloc(h, cell) == [heap |-> Append(h, cell), at |-> Len(h) + 1]

\* A new array of new objects
AllocArrayOf(h, cells) ==
  Alloc(h \o cells, ArrayCell([i \in 1..Len(cells) |-> Len(h) + i]))

\* this._data of a List: the elements' addresses
Elems(h, list) == h[h[list].n].l

\* The value an address stands for, with the elements of a List in place.
RECURSIVE ValueAt(_, _)
ValueAt(h, a) ==
  IF h[a].type = "List"
  THEN NewList([i \in 1..Len(Elems(h, a)) |-> ValueAt(h, Elems(h, a)[i])])
  ELSE h[a]

\* value.toArray(): a List returns its own array, a true Bool and Int 0 an
\* array of themselves, an Int and a Str an array of new objects.
toArray_on(h, a) ==
  CASE h[a].type = "List" -> [heap |-> h, at |-> h[a].n]
    [] h[a].type = "Int" ->
         IF h[a].n = 0 THEN Alloc(h, ArrayCell(<<a>>))
         ELSE AllocArrayOf(h, Int_toArray(h[a]).l)
    [] h[a].type = "Str" -> AllocArrayOf(h, Str_toArray(h[a]).l)
    [] h[a].type = "Bool" -> Alloc(h, ArrayCell(IF h[a].b THEN <<a>> ELSE <<>>))
    [] h[a].type = "Null" -> Alloc(h, ArrayCell(<<>>))

\* Array.prototype.push(...items), which changes the array it is called on
Array_push_on(h, a, b) ==
  [heap |-> [h EXCEPT ![a] = ArrayCell(h[a].l \o h[b].l)], at |-> a]

\* Array.prototype.concat: a new array
Array_concat_on(h, a, b) == Alloc(h, ArrayCell(h[a].l \o h[b].l))

\* new List(array)
NewList_on(h, array) ==
  LET made == Alloc(h, ListCell(array))
  IN [heap |-> made.heap, result |-> Return(Ref(made.at))]

\* new Int(...), new Str(...): the object a method of an Int or a Str
\* returns is new; an error, a number, a boolean or a string allocates
\* nothing.
New_on(h, outcome) ==
  IF outcome.kind = "return" /\ IsObject(outcome.val)
  THEN LET made == Alloc(h, outcome.val)
       IN [heap |-> made.heap, result |-> Return(Ref(made.at))]
  ELSE [heap |-> h, result |-> outcome]

\* new List(this._data.concat(rhs.toArray()))
List_add_on(h, this, rhs) ==
  LET array == toArray_on(h, rhs)
      joined == Array_concat_on(array.heap, h[this].n, array.at)
  IN NewList_on(joined.heap, joined.at)

\* List.mul, for a count that is not negative: acc, which starts as a new
\* array, is replaced count times by acc.concat(this._data); the arrays it
\* leaves behind are not kept.
List_mul_on(h, this, rhs) ==
  LET data == Elems(h, this)
      num == toNumber(ValueAt(h, rhs)).n
      acc == Alloc(h, ArrayCell([i \in 1..(num * Len(data)) |-> data[((i - 1) % Len(data)) + 1]]))
  IN NewList_on(acc.heap, acc.at)

\* new List(this._data.slice(start, start + length) || [])
List_get_on(h, this, start, length) ==
  LET from == toNumber(ValueAt(h, start))
      len == toNumber(ValueAt(h, length))
      cut == Alloc(h, ArrayCell(Array_slice(Elems(h, this), from, Plus(from, len)).l))
  IN NewList_on(cut.heap, cut.at)

\* new List(this._data.toSpliced(start.toNumber(), length.toNumber(), ...repl.toArray()))
List_set_on(h, this, start, length, repl) ==
  LET array == toArray_on(h, repl)
      spliced == Alloc(array.heap,
                       ArrayCell(Array_toSpliced(Elems(h, this), toNumber(ValueAt(h, start)),
                                                 toNumber(ValueAt(h, length)),
                                                 array.heap[array.at].l).l))
  IN NewList_on(spliced.heap, spliced.at)

\* this._data[0]
List_head_on(h, this) ==
  IF Len(Elems(h, this)) = 0
  THEN [heap |-> h, result |-> ThrowNew(ListImports, "RuntimeError")]
  ELSE [heap |-> h, result |-> Return(Ref(Elems(h, this)[1]))]

\* new List(this._data.slice(1))
List_tail_on(h, this) ==
  IF Len(Elems(h, this)) = 0
  THEN [heap |-> h, result |-> ThrowNew(ListImports, "RuntimeError")]
  ELSE LET cut == Alloc(h, ArrayCell(Tail(Elems(h, this))))
       IN NewList_on(cut.heap, cut.at)

\* Literal.run: `return this`
Literal_run_on(h, this) == [heap |-> h, result |-> Return(Ref(this))]

(***************************************************************************)
(* The evaluator (func.js): the environment is one mapping from names to   *)
(* Values, undefined for a name never assigned; running a variable looks   *)
(* its name up, and an assignment binds a name to the result of its        *)
(* operand.                                                                *)
(***************************************************************************)
\* The names a program of the model may assign.
Names == {"x", "y"}

NoBlock == [captured |-> FALSE, name |-> "x", value |-> JSUndefined]

EmptyEnv == [name \in Names |-> JSUndefined]

\* Running a variable: a RuntimeError when the name was never assigned.
Variable_run(e, name) ==
  IF e[name] = JSUndefined THEN Throw("RuntimeError") ELSE Return(e[name])

\* An assignment the environment does not keep.
Assign_dropped(e, name, value) == e

\* Assignment: the name is bound to the value in the one environment.
Assign(e, name, value) == [e EXCEPT ![name] = value]

\* What the evaluator has run: a condition with its result and the boolean
\* made of it, or a body with the value it assigned.
Event(kind, value, truth) == [kind |-> kind, val |-> value, truth |-> truth]

(***************************************************************************)
(* The values and texts the model draws its inputs from.                   *)
(***************************************************************************)
SeqsUpTo(S, n) == UNION {[1..k -> S] : k \in 0..n}

StrChars == {"a", "1", "-"}
SrcChars == {"'", "\"", "a", "\n"}

Ints == {IntOf(n) : n \in (-MaxInt)..MaxInt}
Strs == {NewStr(s) : s \in SeqsUpTo(StrChars, MaxStrLen)}
Bools == {NewBool(TRUE), NewBool(FALSE)}
Elements == {IntOf(1), IntOf(2), NewStr(<<"a">>), NewNull, NewList(<<IntOf(1)>>)}
Lists == {NewList(l) : l \in SeqsUpTo(Elements, MaxListLen)}
Values == Ints \cup Strs \cup Bools \cup {NewNull} \cup Lists
Sources == SeqsUpTo(SrcChars, MaxSrcLen)

(***************************************************************************)
(* One call on a receiver and an operand.  receiver and operand are drawn  *)
(* at the start; every action is one method call, and records the method   *)
(* and its outcome.                                                        *)
(***************************************************************************)
AuxIdle ==
  /\ operand2 = NewNull
  /\ args = <<>>
  /\ count = 0
  /\ built = <<>>
  /\ env = EmptyEnv
  /\ trace = <<>>
  /\ blk = NoBlock
  /\ heap = <<>>

Idle ==
  /\ AuxIdle
  /\ op = "none"
  /\ result = NoResult
  /\ input = <<>>
  /\ stream = <<>>
  /\ hd = NoResult
  /\ tl = NoResult

Init ==
  /\ receiver \in Values
  /\ operand \in Values
  /\ pc = "call"
  /\ Idle

Called(method, outcome) ==
  /\ pc = "call"
  /\ op' = method
  /\ result' = outcome
  /\ pc' = "returned"
  /\ UNCHANGED <<receiver, operand, input, stream, hd, tl>>
  /\ UNCHANGED aux

Int_div_call == receiver.type = "Int" /\ Called("Int.div", Int_div(receiver, operand))

Int_mod_call == receiver.type = "Int" /\ Called("Int.mod", Int_mod(receiver, operand))

Int_pow_call == receiver.type = "Int" /\ Called("Int.pow", Int_pow(receiver, operand))

Str_head_call == receiver.type = "Str" /\ Called("head", Str_head(receiver))

Str_tail_call == receiver.type = "Str" /\ Called("tail", Str_tail(receiver))

List_head_call == receiver.type = "List" /\ Called("head", List_head(receiver))

List_tail_call == receiver.type = "List" /\ Called("tail", List_tail(receiver))

eql_call == Called("eql", Return(JSBoolean(eql(receiver, operand))))

cmp_call == Called("cmp", cmp(receiver, operand))

toString_call == Called("toString", Return(toString(receiver)))

toNumber_call == Called("toNumber", Return(toNumber(receiver)))

toBoolean_call == Called("toBoolean", Return(toBoolean(receiver)))

toArray_call == Called("toArray", Return(toArray(receiver)))

Str_mul_call == receiver.type = "Str" /\ Called("Str.mul", Str_mul(receiver, operand))

Str_ascii_call == receiver.type = "Str" /\ Called("Str.ascii", Str_ascii(receiver))

Next ==
  \/ Int_div_call
  \/ Int_mod_call
  \/ Int_pow_call
  \/ Str_head_call
  \/ Str_tail_call
  \/ List_head_call
  \/ List_tail_call
  \/ eql_call
  \/ cmp_call
  \/ toString_call
  \/ toNumber_call
  \/ toBoolean_call
  \/ toArray_call
  \/ Str_mul_call
  \/ Str_ascii_call

Spec == Init /\ [][Next]_vars

(***************************************************************************)
(* Compositions of calls on one value s, one call at a time:               *)
(* s.head().add(s.tail()) and new List([s.head()]).add(s.tail()), each     *)
(* followed by .eql(s); s.eql(s); and s.eql(copy of s).                    *)
(***************************************************************************)
ScriptInit ==
  /\ receiver \in Strs \cup Lists
  /\ operand = NewNull
  /\ pc = "start"
  /\ Idle

Script_head ==
  /\ pc = "start"
  /\ hd' = head(receiver)
  /\ pc' = IF hd'.kind = "throw" THEN "failed" ELSE "head"
  /\ op' = "head"
  /\ UNCHANGED <<receiver, operand, result, input, stream, tl>>
  /\ UNCHANGED aux

Script_tail ==
  /\ pc = "head"
  /\ tl' = tail(receiver)
  /\ pc' = IF tl'.kind = "throw" THEN "failed" ELSE "tail"
  /\ op' = "tail"
  /\ UNCHANGED <<receiver, operand, result, input, stream, hd>>
  /\ UNCHANGED aux

Script_add ==
  /\ pc = "tail"
  /\ result' = add(hd.val, tl.val)
  /\ pc' = IF result'.kind = "throw" THEN "failed" ELSE "added"
  /\ op' = "head.add"
  /\ UNCHANGED <<receiver, operand, input, stream, hd, tl>>
  /\ UNCHANGED aux

Script_list_add ==
  /\ pc = "tail"
  /\ result' = List_add(NewList(<<hd.val>>), tl.val)
  /\ pc' = "added"
  /\ op' = "list.add"
  /\ UNCHANGED <<receiver, operand, input, stream, hd, tl>>
  /\ UNCHANGED aux

Script_eql ==
  /\ pc = "added"
  /\ result' = Return(JSBoolean(eql(result.val, receiver)))
  /\ pc' = "compared"
  /\ UNCHANGED <<receiver, operand, op, input, stream, hd, tl>>
  /\ UNCHANGED aux

\* l.eql(l)
Script_self_eql ==
  /\ pc = "start"
  /\ receiver.type = "List"
  /\ result' = Return(JSBoolean(eql(receiver, receiver)))
  /\ pc' = "compared"
  /\ op' = "self.eql"
  /\ UNCHANGED <<receiver, operand, input, stream, hd, tl>>
  /\ UNCHANGED aux

\* A copy of l built one element at a time, from new List([]) on, each
\* step adding new List([l[i]]); then l.eql(copy).
Rebuild_start ==
  /\ pc = "start"
  /\ receiver.type = "List"
  /\ result' = Return(NewList(<<>>))
  /\ pc' = "rebuild"
  /\ op' = "rebuild"
  /\ UNCHANGED <<receiver, operand, input, stream, hd, tl>>
  /\ UNCHANGED aux

Rebuild_step ==
  /\ pc = "rebuild"
  /\ Len(result.val.l) < Len(receiver.l)
  /\ result' = List_add(result.val, NewList(<<receiver.l[Len(result.val.l) + 1]>>))
  /\ UNCHANGED <<receiver, operand, op, input, stream, hd, tl, pc>>
  /\ UNCHANGED aux

Rebuild_eql ==
  /\ pc = "rebuild"
  /\ Len(result.val.l) >= Len(receiver.l)
  /\ result' = Return(JSBoolean(eql(receiver, result.val)))
  /\ pc' = "compared"
  /\ UNCHANGED <<receiver, operand, op, input, stream, hd, tl>>
  /\ UNCHANGED aux

ScriptNext ==
  \/ Script_head
  \/ Script_tail
  \/ Script_add
  \/ Script_list_add
  \/ Script_eql
  \/ Script_self_eql
  \/ Rebuild_start
  \/ Rebuild_step
  \/ Rebuild_eql

ScriptSpec == ScriptInit /\ [][ScriptNext]_vars

(***************************************************************************)
(* Str.parse on a stream over a source text.                               *)
(***************************************************************************)
ParseInit ==
  /\ AuxIdle
  /\ input \in Sources
  /\ stream = input
  /\ receiver = NewNull
  /\ operand = NewNull
  /\ op = "none"
  /\ result = NoResult
  /\ hd = NoResult
  /\ tl = NoResult
  /\ pc = "parse"

Parsed(method, parse) ==
  /\ pc = "parse"
  /\ op' = method
  /\ result' = parse.result
  /\ stream' = parse.source
  /\ pc' = "parsed"
  /\ UNCHANGED <<receiver, operand, input, hd, tl>>
  /\ UNCHANGED aux

Str_parse_call == Parsed("Str.parse", Str_parse(stream))

Str_parse_2_call == Parsed("Str.parse.2", Str_parse_2(stream))

ParseNext ==
  \/ Str_parse_call
  \/ Str_parse_2_call

ParseSpec == ParseInit /\ [][ParseNext]_vars

(***************************************************************************)
(* get(start, length) on a Str or a List, with Int arguments.              *)
(***************************************************************************)
GetInit ==
  /\ receiver \in Strs \cup Lists
  /\ operand \in Ints
  /\ operand2 \in Ints
  /\ args = <<>>
  /\ pc = "call"
  /\ op = "none"
  /\ result = NoResult
  /\ input = <<>>
  /\ stream = <<>>
  /\ hd = NoResult
  /\ tl = NoResult
  /\ count = 0
  /\ built = <<>>
  /\ env = EmptyEnv
  /\ trace = <<>>
  /\ blk = NoBlock
  /\ heap = <<>>

Str_get_call == receiver.type = "Str" /\ Called("Str.get", Str_get(receiver, operand, operand2))

Str_get_2_call == receiver.type = "Str" /\ Called("Str.get.2", Str_get_2(receiver, operand, operand2))

List_get_call == receiver.type = "List" /\ Called("List.get", List_get(receiver, operand, operand2))

GetNext ==
  \/ Str_get_call
  \/ Str_get_2_call
  \/ List_get_call

GetSpec == GetInit /\ [][GetNext]_vars

(***************************************************************************)
(* toArray on Ints of up to three digits.                                  *)
(***************************************************************************)
DigitsInit ==
  /\ receiver \in {IntOf(n) : n \in (-MaxDigitsInt)..MaxDigitsInt}
  /\ operand = NewNull
  /\ pc = "call"
  /\ Idle

Int_toArray_call == receiver.type = "Int" /\ Called("Int.toArray", Return(Int_toArray(receiver)))

DigitsNext == Int_toArray_call

DigitsSpec == DigitsInit /\ [][DigitsNext]_vars

(***************************************************************************)
(* run on a program text.                                                  *)
(***************************************************************************)
\* The characters of the programs: a digit, the letters of T and N, @, a
\* quote, a blank, a comment sign, a newline, and a character no variant
\* starts with.
ProgramChars == {"1", "T", "N", "@", "'", " ", "#", "\n", "."}

Programs == SeqsUpTo(ProgramChars, MaxSrcLen)

RunInit ==
  /\ AuxIdle
  /\ input \in Programs
  /\ stream = input
  /\ receiver = NewNull
  /\ operand = NewNull
  /\ op = "none"
  /\ result = NoResult
  /\ hd = NoResult
  /\ tl = NoResult
  /\ pc = "run"

run_call ==
  /\ pc = "run"
  /\ LET outcome == run(stream)
     IN /\ result' = outcome.result
        /\ stream' = outcome.source
        /\ trace' = outcome.ran
  /\ op' = "run"
  /\ pc' = "ran"
  /\ UNCHANGED <<receiver, operand, input, hd, tl>>
  /\ UNCHANGED <<operand2, args, count, built, env, blk, heap>>

RunNext == run_call

RunSpec == RunInit /\ [][RunNext]_vars

(***************************************************************************)
(* Two operations, one after the other, on objects of a heap: the second   *)
(* may take what the first returned.  Every action is one method call on   *)
(* objects that exist, and records the receiver, the arguments and the     *)
(* outcome.                                                                *)
(***************************************************************************)
\* Int 1, Str "a", Bool true, the List [1, "a"] and the List of that List.
InitialHeap ==
  <<IntOf(1), NewStr(<<"a">>), NewBool(TRUE), ArrayCell(<<1, 2>>), ListCell(4),
    ArrayCell(<<5>>), ListCell(6)>>

ObjectsOf(h, types) == {a \in 1..Len(h) : h[a].type \in types}
Objects(h) == ObjectsOf(h, {"Int", "Str", "Bool", "Null", "List"})

HeapInit ==
  /\ heap = InitialHeap
  /\ receiver = NewNull
  /\ operand = NewNull
  /\ operand2 = NewNull
  /\ args = <<>>
  /\ op = "none"
  /\ result = NoResult
  /\ input = <<>>
  /\ stream = <<>>
  /\ hd = NoResult
  /\ tl = NoResult
  /\ count = 0
  /\ built = <<>>
  /\ env = EmptyEnv
  /\ trace = <<>>
  /\ blk = NoBlock
  /\ pc = "first"

\* The call method(arguments) on the object at this has come to the
\* outcome: the heap and the result are the outcome's.
Performed(method, this, arguments, outcome) ==
  /\ pc \in {"first", "second"}
  /\ Len(outcome.heap) <= MaxHeap
  /\ heap' = outcome.heap
  /\ result' = outcome.result
  /\ receiver' = Ref(this)
  /\ args' = arguments
  /\ op' = method
  /\ pc' = IF pc = "first" THEN "second" ELSE "done"
  /\ UNCHANGED <<operand, operand2, input, stream, hd, tl, count, built, env, trace, blk>>

List_add_heap ==
  \E this \in ObjectsOf(heap, {"List"}), rhs \in Objects(heap) :
    Performed("List.add", this, <<rhs>>, List_add_on(heap, this, rhs))

List_mul_heap ==
  \E this \in ObjectsOf(heap, {"List"}), rhs \in Objects(heap) :
    /\ toNumber(ValueAt(heap, rhs)).n >= 0
    /\ Performed("List.mul", this, <<rhs>>, List_mul_on(heap, this, rhs))

List_get_heap ==
  \E this \in ObjectsOf(heap, {"List"}), start \in ObjectsOf(heap, {"Int"}), length \in Objects(heap) :
    Performed("List.get", this, <<start, length>>, List_get_on(heap, this, start, length))

List_set_heap ==
  \E this \in ObjectsOf(heap, {"List"}), start \in ObjectsOf(heap, {"Int"}),
     length \in ObjectsOf(heap, {"Int"}), repl \in Objects(heap) :
    Performed("List.set", this, <<start, length, repl>>, List_set_on(heap, this, start, length, repl))

List_head_heap ==
  \E this \in ObjectsOf(heap, {"List"}) :
    Performed("List.head", this, <<>>, List_head_on(heap, this))

List_tail_heap ==
  \E this \in ObjectsOf(heap, {"List"}) :
    Performed("List.tail", this, <<>>, List_tail_on(heap, this))

run_heap ==
  \E this \in Objects(heap) :
    Performed("run", this, <<>>, Literal_run_on(heap, this))

Int_add_heap ==
  \E this \in ObjectsOf(heap, {"Int"}), rhs \in Objects(heap) :
    Performed("Int.add", this, <<rhs>>, New_on(heap, Int_add(ValueAt(heap, this), ValueAt(heap, rhs))))

Int_pow_heap ==
  \E this \in ObjectsOf(heap, {"Int"}), rhs \in Objects(heap) :
    Performed("Int.pow", this, <<rhs>>, New_on(heap, Int_pow(ValueAt(heap, this), ValueAt(heap, rhs))))

Str_add_heap ==
  \E this \in ObjectsOf(heap, {"Str"}), rhs \in Objects(heap) :
    Performed("Str.add", this, <<rhs>>, New_on(heap, Str_add(ValueAt(heap, this), ValueAt(heap, rhs))))

Str_mul_heap ==
  \E this \in ObjectsOf(heap, {"Str"}), rhs \in Objects(heap) :
    Performed("Str.mul", this, <<rhs>>, New_on(heap, Str_mul(ValueAt(heap, this), ValueAt(heap, rhs))))

Str_get_heap ==
  \E this \in ObjectsOf(heap, {"Str"}), start \in ObjectsOf(heap, {"Int"}), length \in Objects(heap) :
    Performed("Str.get", this, <<start, length>>,
              New_on(heap, Str_get(ValueAt(heap, this), ValueAt(heap, start), ValueAt(heap, length))))

Str_set_heap ==
  \E this \in ObjectsOf(heap, {"Str"}), start \in ObjectsOf(heap, {"Int"}),
     length \in ObjectsOf(heap, {"Int"}), repl \in Objects(heap) :
    Performed("Str.set", this, <<start, length, repl>>,
              New_on(heap, Str_set(ValueAt(heap, this), ValueAt(heap, start), ValueAt(heap, length),
                                   ValueAt(heap, repl))))

eql_heap ==
  \E this \in Objects(heap), rhs \in Objects(heap) :
    Performed("eql", this, <<rhs>>,
              New_on(heap, Return(JSBoolean(eql(ValueAt(heap, this), ValueAt(heap, rhs))))))

cmp_heap ==
  \E this \in Objects(heap), rhs \in Objects(heap) :
    Performed("cmp", this, <<rhs>>, New_on(heap, cmp(ValueAt(heap, this), ValueAt(heap, rhs))))

toString_heap ==
  \E this \in Objects(heap) :
    Performed("toString", this, <<>>, New_on(heap, Return(toString(ValueAt(heap, this)))))

HeapNext ==
  \/ List_add_heap
  \/ List_mul_heap
  \/ List_get_heap
  \/ List_set_heap
  \/ List_head_heap
  \/ List_tail_heap
  \/ run_heap
  \/ Int_add_heap
  \/ Int_pow_heap
  \/ Str_add_heap
  \/ Str_mul_heap
  \/ Str_get_heap
  \/ Str_set_heap
  \/ eql_heap
  \/ cmp_heap
  \/ toString_heap

HeapSpec == HeapInit /\ [][HeapNext]_vars

(***************************************************************************)
(* WHILE x (= x v): the condition is the variable x, and the body assigns  *)
(* x a value, any of LoopValues each time it is run.                       *)
(***************************************************************************)
LoopValues ==
  {IntOf(0), IntOf(1), NewStr(<<>>), NewBool(TRUE), NewNull, NewList(<<>>),
   NewList(<<IntOf(0)>>)}

LoopInit ==
  /\ env \in {Assign(EmptyEnv, "x", v) : v \in LoopValues}
  /\ pc = "condition"
  /\ trace = <<>>
  /\ count = 0
  /\ receiver = NewNull
  /\ operand = NewNull
  /\ operand2 = NewNull
  /\ args = <<>>
  /\ op = "none"
  /\ result = NoResult
  /\ input = <<>>
  /\ stream = <<>>
  /\ hd = NoResult
  /\ tl = NoResult
  /\ built = <<>>
  /\ blk = NoBlock
  /\ heap = <<>>

\* The condition operand is run, and its result made a boolean: the loop
\* goes on to its body when it is true, and ends when it is false.
WHILE_condition ==
  /\ pc = "condition"
  /\ LET value == Variable_run(env, "x").val
         truth == toBoolean(value).b
     IN /\ trace' = Append(trace, Event("condition", value, truth))
        /\ pc' = IF truth THEN "body" ELSE "done"
        /\ result' = IF truth THEN result ELSE Return(NewNull)
  /\ op' = "WHILE"
  /\ UNCHANGED <<receiver, operand, operand2, args, input, stream, hd, tl, count, built, env, blk, heap>>

\* The body operand is run, its result dropped, and the condition is next.
\* No more than MaxLoop bodies are followed.
WHILE_body ==
  /\ pc = "body"
  /\ count < MaxLoop
  /\ \E v \in LoopValues :
       /\ env' = Assign(env, "x", v)
       /\ trace' = Append(trace, Event("body", v, FALSE))
  /\ count' = count + 1
  /\ pc' = "condition"
  /\ UNCHANGED <<receiver, operand, operand2, args, op, result, input, stream, hd, tl, built, blk, heap>>

LoopNext ==
  \/ WHILE_condition
  \/ WHILE_body

LoopSpec == LoopInit /\ [][LoopNext]_vars

(***************************************************************************)
(* BLOCK (= name value), kept and later run with CALL, with lookups of the *)
(* names before and after.  The program assigns nothing outside the block. *)
(***************************************************************************)
BlockValues == {IntOf(0), IntOf(5), NewStr(<<"a">>), NewNull, NewList(<<IntOf(1)>>)}

BlockInit ==
  /\ env = EmptyEnv
  /\ blk = NoBlock
  /\ pc = "start"
  /\ trace = <<>>
  /\ count = 0
  /\ receiver = NewNull
  /\ operand = NewNull
  /\ operand2 = NewNull
  /\ args = <<>>
  /\ op = "none"
  /\ result = NoResult
  /\ input = <<>>
  /\ stream = <<>>
  /\ hd = NoResult
  /\ tl = NoResult
  /\ built = <<>>
  /\ heap = <<>>

\* BLOCK: the operand, an assignment, is kept and not run.
BLOCK_run ==
  /\ pc = "start"
  /\ \E name \in Names, value \in BlockValues :
       blk' = [captured |-> TRUE, name |-> name, value |-> value]
  /\ pc' = "captured"
  /\ op' = "BLOCK"
  /\ UNCHANGED <<receiver, operand, operand2, args, result, input, stream, hd, tl, count, built,
                 env, trace, heap>>

\* CALL: the block kept is run, and its assignment binds the name.
CALL_run ==
  /\ pc = "captured"
  /\ env' = Assign(env, blk.name, blk.value)
  /\ result' = Return(blk.value)
  /\ pc' = "invoked"
  /\ op' = "CALL"
  /\ UNCHANGED <<receiver, operand, operand2, args, input, stream, hd, tl, count, built, trace,
                 blk, heap>>

\* A lookup of a name, outside the block, at any point of the program; no
\* more than MaxLookups are followed.
Variable_lookup ==
  /\ count < MaxLookups
  /\ \E name \in Names :
       /\ result' = Variable_run(env, name)
       /\ trace' = Append(trace, [name |-> name, at |-> pc, outcome |-> Variable_run(env, name)])
  /\ count' = count + 1
  /\ op' = "lookup"
  /\ UNCHANGED <<receiver, operand, operand2, args, input, stream, hd, tl, built, env, blk, heap, pc>>

BlockNext ==
  \/ BLOCK_run
  \/ CALL_run
  \/ Variable_lookup

BlockSpec == BlockInit /\ [][BlockNext]_vars

(***************************************************************************)
(* List.mul, one turn of its loop at a time.  count is num and built is    *)
(* acc.                                                                    *)
(***************************************************************************)
MulInit ==
  /\ receiver \in Lists
  /\ operand \in Values
  /\ pc = "call"
  /\ Idle

\* var acc = []; var num = rhs.toNumber();
List_mul_enter ==
  /\ pc = "call"
  /\ built' = <<>>
  /\ count' = toNumber(operand).n
  /\ op' = "List.mul"
  /\ pc' = "loop"
  /\ UNCHANGED <<receiver, operand, operand2, args, result, input, stream, hd, tl, env, trace,
                 blk, heap>>

\* while (num--) { acc = acc.concat(this._data); } when num is not 0.  A
\* num below -MaxDescent is not followed further.
List_mul_turn ==
  /\ pc = "loop"
  /\ count # 0
  /\ count > -MaxDescent
  /\ count' = count - 1
  /\ built' = built \o receiver.l
  /\ UNCHANGED <<receiver, operand, operand2, args, op, result, input, stream, hd, tl, env,
                 trace, blk, heap, pc>>

\* while (num--) when num is 0, and return new List(acc);
List_mul_return ==
  /\ pc = "loop"
  /\ count = 0
  /\ count' = count - 1
  /\ result' = Return(NewList(built))
  /\ pc' = "returned"
  /\ UNCHANGED <<receiver, operand, operand2, args, op, input, stream, hd, tl, built, env,
                 trace, blk, heap>>

MulNext ==
  \/ List_mul_enter
  \/ List_mul_turn
  \/ List_mul_return

MulSpec == MulInit /\ [][MulNext]_vars

(***************************************************************************)
(* Properties.                                                             *)
(***************************************************************************)
Returned(v) == result = Return(v)
Threw(e) == result = Throw(e)

\* C1: for every Int a and every nonzero Int b, a.div(b) returns the Int q
\* that is the quotient truncated toward zero: |q| is the largest integer
\* with |q| * |b| <= |a|, and q has the sign of a / b (never the floor when
\* that differs).
C1_DivTruncatesTowardZero ==
  (op = "Int.div" /\ operand.type = "Int" /\ operand.n # 0) =>
    /\ result.kind = "return"
    /\ result.val.type = "Int"
    /\ result.val.s = <<>>
    /\ LET a == receiver.n
           b == operand.n
           q == result.val.n
       IN /\ Abs(q) * Abs(b) <= Abs(a)
          /\ Abs(a) < (Abs(q) + 1) * Abs(b)
          /\ q # 0 => Sign(q) = Sign(a) * Sign(b)

\* (-7).div(2) has returned -3
C1_Witness ==
  /\ op = "Int.div"
  /\ receiver = IntOf(-7)
  /\ operand = IntOf(2)
  /\ Returned(IntOf(-3))

\* The right operands the claim lists as having the number 0.
ZeroOperands ==
  {IntOf(0), NewNull, NewBool(FALSE), NewStr(<<>>), NewStr(<<"a">>),
   NewStr(<<"-">>), NewStr(<<"a", "1">>), NewList(<<>>)}

\* C2: a.div(rhs) and a.mod(rhs) throw a RuntimeError, and return nothing,
\* for every right operand whose toNumber() is 0, among them Int 0, Null,
\* Bool false, an empty or non-numeric Str and the empty List.
C2_DivModByZeroFails ==
  (op \in {"Int.div", "Int.mod"} /\ (operand \in ZeroOperands \/ toNumber(operand) = JSNumber(0))) =>
    Threw("RuntimeError")

\* a.mod of a non-numeric Str has thrown
C2_Witness ==
  /\ op = "Int.mod"
  /\ operand = NewStr(<<"a">>)
  /\ Threw("RuntimeError")

\* C3: Int 0 to a negative exponent throws a RuntimeError, Int 0 to the
\* exponent 0 returns Int 1, and every other base and exponent returns an
\* Int.
C3_PowOfZero ==
  op = "Int.pow" =>
    IF receiver.n = 0 /\ toNumber(operand).n < 0 THEN Threw("RuntimeError")
    ELSE /\ result.kind = "return"
         /\ result.val.type = "Int"
         /\ (receiver.n = 0 /\ toNumber(operand).n = 0) => Returned(IntOf(1))

\* 2.pow(-1) has returned an Int, 0
C3_Witness ==
  /\ op = "Int.pow"
  /\ receiver = IntOf(2)
  /\ operand = IntOf(-1)
  /\ Returned(IntOf(0))

NonEmpty(v) == (v.type = "Str" /\ v.s # <<>>) \/ (v.type = "List" /\ v.l # <<>>)

\* C4 as stated: for every nonempty Str or List s, s.head().add(s.tail())
\* returns a value that is eql to s.
C4_HeadAddTailRebuilds ==
  (NonEmpty(receiver) /\ op = "head.add") =>
    /\ pc # "failed"
    /\ pc = "compared" => Returned(JSBoolean(TRUE))

\* C4 amended: for every nonempty Str s, s.head().add(s.tail()) is eql to
\* s; for every nonempty List l, head(l) is the first element itself, and
\* the List of that one element, add l.tail(), is eql to l.
C4_HeadTailRebuilds ==
  /\ (NonEmpty(receiver) /\ receiver.type = "Str" /\ op = "head.add") =>
       /\ pc # "failed"
       /\ pc = "compared" => Returned(JSBoolean(TRUE))
  /\ (NonEmpty(receiver) /\ receiver.type = "List" /\ op = "list.add") =>
       /\ pc # "failed"
       /\ hd = Return(receiver.l[1])
       /\ pc = "compared" => Returned(JSBoolean(TRUE))

\* [1, [1]] has been rebuilt from its head and its tail, and compared
C4_Witness ==
  /\ pc = "compared"
  /\ op = "list.add"
  /\ receiver = NewList(<<IntOf(1), NewList(<<IntOf(1)>>)>>)
  /\ Returned(JSBoolean(TRUE))

\* C5: head and tail of an empty Str and of an empty List throw a
\* RuntimeError, no other error and no value.
C5_HeadTailOfEmptyFail ==
  (op \in {"head", "tail"} /\ receiver \in {NewStr(<<>>), NewList(<<>>)}) =>
    Threw("RuntimeError")

\* C6: for every List l, l.eql(l) is true, and l.eql(c) is true for a copy c
\* of l built one element at a time; nested lists included.
C6_ListEqlReflexive ==
  (pc = "compared" /\ op \in {"self.eql", "rebuild"}) => Returned(JSBoolean(TRUE))

\* [[1], null] has been copied element by element and compared
C6_Witness ==
  /\ pc = "compared"
  /\ op = "rebuild"
  /\ receiver = NewList(<<NewList(<<IntOf(1)>>), NewNull>>)
  /\ Returned(JSBoolean(TRUE))

\* C7: a.eql(b) is true only when a and b are the same variant with the same
\* content, so it is false, both ways round, for values of two variants.
C7_EqlSameVariantSameContent ==
  op = "eql" =>
    /\ result.kind = "return"
    /\ result.val.type = "boolean"
    /\ result.val.b => (receiver.type = operand.type /\ receiver = operand)
    /\ receiver.type # operand.type => Returned(JSBoolean(FALSE))

\* Int 1 has been compared with Str "1", and is not eql to it
C7_Witness ==
  /\ op = "eql"
  /\ receiver = IntOf(1)
  /\ operand = NewStr(<<"1">>)
  /\ Returned(JSBoolean(FALSE))

\* The positions, from 1, at which the elements' own cmp does not return 0
\* while it returns 0 at every position before.
FirstDifference(d, a) ==
  {i \in 1..Min(Len(d), Len(a)) :
     /\ cmp(d[i], a[i]) # Return(JSNumber(0))
     /\ \A k \in 1..(i - 1) : cmp(d[k], a[k]) = Return(JSNumber(0))}

\* C8: List.cmp of two Lists is what the elements' own cmp gives at the
\* first position where it is not 0; with no such position it is negative
\* when the receiver is a proper prefix, positive when the operand is, and 0
\* for equal lengths.
C8_ListCmpLexicographic ==
  (op = "cmp" /\ receiver.type = "List" /\ operand.type = "List") =>
    LET d == receiver.l
        a == operand.l
    IN IF FirstDifference(d, a) # {}
       THEN \A i \in FirstDifference(d, a) : result = cmp(d[i], a[i])
       ELSE /\ result.kind = "return"
            /\ result.val.type = "number"
            /\ Sign(result.val.n) = Sign(Len(d) - Len(a))

\* [2].cmp([1, 2]) has been decided by its first elements, against the lengths
C8_Witness ==
  /\ op = "cmp"
  /\ receiver = NewList(<<IntOf(2)>>)
  /\ operand = NewList(<<IntOf(1), IntOf(2)>>)
  /\ result.kind = "return"
  /\ result.val.n > 0

\* C9: Null's toString() is the empty string, its toNumber() 0, its
\* toBoolean() false, its toArray() empty, and its cmp throws a RuntimeError
\* whatever the right operand.
C9_NullCoercions ==
  receiver = NewNull =>
    /\ op = "toString" => Returned(JSString(<<>>))
    /\ op = "toNumber" => Returned(JSNumber(0))
    /\ op = "toBoolean" => Returned(JSBoolean(FALSE))
    /\ op = "toArray" => Returned(JSArray(<<>>))
    /\ op = "cmp" => Threw("RuntimeError")

\* Null.cmp(Null) has thrown
C9_Witness ==
  /\ op = "cmp"
  /\ receiver = NewNull
  /\ operand = NewNull
  /\ Threw("RuntimeError")

\* C10: on a text that starts with a quote that never comes again, Str.parse
\* throws a ParseError; when it comes again, Str.parse returns the Str of the
\* text between the opening quote and its first return, and leaves the text
\* after it; on a text that starts with no quote it returns no value, throws
\* nothing and consumes nothing.
C10_StrParse ==
  pc = "parsed" =>
    IF input # <<>> /\ input[1] \in Quotes
    THEN IF \E j \in 2..Len(input) : input[j] = input[1]
         THEN \E j \in 2..Len(input) :
                /\ input[j] = input[1]
                /\ \A k \in 2..(j - 1) : input[k] # input[1]
                /\ Returned(NewStr(SubSeq(input, 2, j - 1)))
                /\ stream = SubSeq(input, j + 1, Len(input))
         ELSE Threw("ParseError")
    ELSE /\ result.kind = "return"
         /\ result.val \in {JSNull, JSUndefined}
         /\ stream = input

\* "\n"a has been parsed to the Str of one newline, leaving a
C10_Witness ==
  /\ pc = "parsed"
  /\ op = "Str.parse"
  /\ input = <<"\"", "\n", "\"">>
  /\ Returned(NewStr(<<"\n">>))

\* C11: for every Str s and every right operand of number n, s.mul(rhs)
\* returns the Str of s repeated n times when n > 0 and the empty Str when
\* n <= 0; it throws nothing, whatever n.
C11_StrMulNeverFails ==
  op = "Str.mul" =>
    LET n == toNumber(operand).n
        times == IF n > 0 THEN n ELSE 0
    IN /\ result.kind = "return"
       /\ result.val.type = "Str"
       /\ Len(result.val.s) = times * Len(receiver.s)
       /\ \A i \in 1..Len(result.val.s) :
            result.val.s[i] = receiver.s[((i - 1) % Len(receiver.s)) + 1]

\* The content of a Str or a List, as a sequence.
Content(v) == IF v.type = "Str" THEN v.s ELSE v.l

\* C12: get(start, length) on a Str or a List returns the elements at the
\* indices start .. start + length - 1 when that range lies inside the
\* value, and the empty Str or List when start is negative, length is
\* negative or start is beyond the end: never a nonempty result then.
C12_GetOutOfBoundsEmpty ==
  op \in {"Str.get", "List.get"} =>
    LET start == operand.n
        length == operand2.n
        whole == Content(receiver)
    IN /\ result.kind = "return"
       /\ result.val.type = receiver.type
       /\ (start >= 0 /\ length >= 0 /\ start + length <= Len(whole)) =>
            Content(result.val) = SubSeq(whole, start + 1, start + length)
       /\ (start < 0 \/ length < 0 \/ start > Len(whole)) =>
            Content(result.val) = <<>>

RECURSIVE Pow10(_)
Pow10(k) == IF k = 0 THEN 1 ELSE 10 * Pow10(k - 1)

\* The number of decimal digits of m > 0
DigitCount(m) == CHOOSE k \in 1..7 : Pow10(k - 1) <= m /\ m < Pow10(k)

\* C13: the list of an Int n is the decimal digits of |n|, most significant
\* first, each an Int with the sign of n, as many as |n| has digits; the
\* list of 0 is the one Int 0.
C13_IntToArrayDigits ==
  op = "Int.toArray" =>
    /\ result.kind = "return"
    /\ result.val.type = "array"
    /\ LET n == receiver.n
           l == result.val.l
       IN IF n = 0 THEN l = <<IntOf(0)>>
          ELSE /\ Len(l) = DigitCount(Abs(n))
               /\ \A i \in 1..Len(l) :
                    l[i] = IntOf(Sign(n) * ((Abs(n) \div Pow10(Len(l) - i)) % 10))

\* -120 has given [-1, -2, 0]
C13_Witness ==
  /\ op = "Int.toArray"
  /\ receiver = IntOf(-120)
  /\ Returned(JSArray(<<IntOf(-1), IntOf(-2), IntOf(0)>>))

\* C14: ascii of the empty Str throws a RuntimeError, and returns no Int.
C14_AsciiOfEmptyFails ==
  (op = "Str.ascii" /\ receiver = NewStr(<<>>)) => Threw("RuntimeError")

\* C15: run(text) parses one value from the start of the text, past white
\* space and comments, runs it and returns what running it returns, a
\* literal being its own result; the text after the value is left unread
\* and changes nothing.  When no value starts there (the text has run out,
\* or no variant matches) run throws a ParseError, and runs nothing.
C15_RunParsesOneValue ==
  pc = "ran" =>
    LET body == Stream_stripWhitespace(input)
        read == SubSeq(input, 1, Len(input) - Len(stream))
    IN IF body = <<>> \/ body[1] = "."
       THEN Threw("ParseError") /\ trace = <<>>
       ELSE IF body[1] = "'" /\ ~(\E j \in 2..Len(body) : body[j] = "'")
       THEN Threw("ParseError") /\ trace = <<>>
       ELSE /\ result.kind = "return"
            /\ trace = <<result.val>>
            /\ body[1] = "1" => result.val.type = "Int" /\ result.val.n >= 1
            /\ body[1] = "T" => result.val = NewBool(TRUE)
            /\ body[1] = "N" => result.val = NewNull
            /\ body[1] = "@" => result.val = NewList(<<>>)
            /\ body[1] = "'" => result.val.type = "Str"
            /\ input = read \o stream
            /\ run(read).result = result

\* "1 T" has been run: Int 1 is returned, and " T" is left unread
C15_Witness ==
  /\ pc = "ran"
  /\ input = <<"1", " ", "T">>
  /\ Returned(IntOf(1))
  /\ stream = <<" ", "T">>
  /\ trace = <<IntOf(1)>>

\* The addresses of the arguments of the call recorded
Arguments(arguments) == {arguments[i] : i \in 1..Len(arguments)}

\* Every cell that exists keeps its content over the step, and so does the
\* value of every object.
Unchanged_heap ==
  /\ Len(heap') >= Len(heap)
  /\ \A a \in 1..Len(heap) : heap'[a] = heap[a]
  /\ \A a \in Objects(heap) : ValueAt(heap', a) = ValueAt(heap, a)

\* C16 as stated: every operation leaves the content of its receiver and of
\* its arguments as it was, and a result that is not the receiver or an
\* argument is a new Value, one that did not exist before the call.
C16_ResultsAreNew ==
  [][/\ Unchanged_heap
     /\ (result'.kind = "return" /\ result'.val.type = "ref") =>
          \/ result'.val.n = receiver'.n
          \/ result'.val.n \in Arguments(args')
          \/ result'.val.n > Len(heap)]_vars

\* C16 amended: every operation leaves the content of its receiver, of its
\* arguments and of every other Value as it was; its result is a new Value,
\* or the receiver (run), or an element of the receiver (head of a List,
\* which returns the element the List holds, never a copy).
C16_ValuesImmutable ==
  [][/\ Unchanged_heap
     /\ (result'.kind = "return" /\ result'.val.type = "ref") =>
          \/ result'.val.n = receiver'.n
          \/ /\ op' = "List.head"
             /\ result'.val.n = Elems(heap, receiver'.n)[1]
          \/ /\ result'.val.n > Len(heap)
             /\ result'.val.n = Len(heap')]_vars

\* [1, "a"].set(...) has been called after another call: it has returned a
\* new List of another content, and the cells of the start are as they were
C16_Witness ==
  /\ pc = "done"
  /\ op = "List.set"
  /\ receiver = Ref(5)
  /\ SubSeq(heap, 1, Len(InitialHeap)) = InitialHeap
  /\ result.kind = "return"
  /\ result.val.n = Len(heap)
  /\ ValueAt(heap, result.val.n) # ValueAt(heap, 5)
  /\ ValueAt(heap, 5) = NewList(<<IntOf(1), NewStr(<<"a">>)>>)

\* The Values that are false as booleans: 0, "", false, null and [].
Falsy == {IntOf(0), NewStr(<<>>), NewBool(FALSE), NewNull, NewList(<<>>)}

Ran(kind) == {i \in 1..Len(trace) : trace[i].kind = kind}
RanTrue == {i \in Ran("condition") : trace[i].val \notin Falsy}

\* C17: a WHILE loop runs its body once after each condition result that is
\* true, and nothing after one that is false: the bodies run are as many as
\* the true results (one less while the body of the last is still to run),
\* and none when the first result is false.
C17_WhileBodyPerTrueCondition ==
  /\ \A i \in Ran("condition") : trace[i].truth = (trace[i].val \notin Falsy)
  /\ \A i \in Ran("body") : i > 1 /\ (i - 1) \in RanTrue
  /\ \A i \in RanTrue : i < Len(trace) => trace[i + 1].kind = "body"
  /\ \A i \in Ran("condition") \ RanTrue : i = Len(trace) /\ pc = "done"
  /\ Cardinality(Ran("body")) = Cardinality(RanTrue) - (IF pc = "body" THEN 1 ELSE 0)
  /\ pc = "done" => Cardinality(Ran("body")) = Cardinality(RanTrue)
  /\ (trace # <<>> /\ trace[1].val \in Falsy) => Ran("body") = {} /\ pc = "done"

\* the loop has ended after two bodies: [0] and 1 were true, "" was false
C17_Witness ==
  /\ pc = "done"
  /\ Cardinality(Ran("body")) = 2
  /\ Len(trace) = 5
  /\ trace[1].val = NewList(<<IntOf(0)>>)
  /\ trace[3].val = IntOf(1)
  /\ trace[5].val = NewStr(<<>>)

\* C18: the value a block assigns is not bound while the block is only
\* kept: a lookup of the name throws a RuntimeError; once the block has been
\* run with CALL the name is bound to the value, and every lookup after
\* that, outside the block, returns it; a name the block does not assign
\* stays unbound.
C18_BlockAssignmentSharedEnv ==
  /\ pc \in {"start", "captured"} => env = EmptyEnv
  /\ pc = "invoked" => env = Assign(EmptyEnv, blk.name, blk.value)
  /\ \A i \in 1..Len(trace) :
       IF trace[i].at = "invoked" /\ trace[i].name = blk.name
       THEN trace[i].outcome = Return(blk.value)
       ELSE trace[i].outcome = Throw("RuntimeError")

\* y was looked up while the block was kept, and threw; the block was run,
\* and y was looked up again, and was 5
C18_Witness ==
  /\ pc = "invoked"
  /\ blk.name = "y"
  /\ Len(trace) = 2
  /\ trace[1] = [name |-> "y", at |-> "captured", outcome |-> Throw("RuntimeError")]
  /\ trace[2] = [name |-> "y", at |-> "invoked", outcome |-> Return(IntOf(5))]

\* C19: List.mul(rhs) comes to an end for every count n = rhs.toNumber(),
\* zero and negative ones too, and returns a List of len(this) * max(n, 0)
\* elements: at the test of the loop the turns left are never below zero
\* (so they run out), the elements collected never pass that length, and
\* the List returned has it.
C19_ListMulTerminates ==
  op = "List.mul" =>
    LET n == toNumber(operand).n
        length == Len(receiver.l) * (IF n > 0 THEN n ELSE 0)
    IN /\ pc = "loop" => count >= 0
       /\ Len(built) <= length
       /\ pc = "returned" =>
            /\ result.kind = "return"
            /\ result.val.type = "List"
            /\ Len(result.val.l) = length

====
